---- MODULE Spec2Model ----
(***************************************************************************)
(* Model of the EKS job failure predictor demo (SPDEMO_demo.py) and of the *)
(* status derivation of the metadata collector (SPDEMO_collect_metadata.py)*)
(*                                                                         *)
(* Three specifications share the variables:                               *)
(*   Spec      the interactive loop run_interactive_demo, one action per   *)
(*             stretch of code between two blocking calls (input(), the    *)
(*             service call);                                              *)
(*   ParseSpec the reply handling of predict_with_claude applied to every  *)
(*             reply text of at most MaxChunks chunks;                     *)
(*   HistSpec  get_historical_context applied to every execution history   *)
(*             of at most MaxRecords records.                              *)
(*                                                                         *)
(* A text is a sequence of characters.  Each element is one character,     *)
(* except a document atom (DOC_...), which stands for the whole text of    *)
(* one JSON document that holds no backtick and no surrounding whitespace, *)
(* and a part atom (PART_...), which stands for a piece of a document that *)
(* is not a JSON text by itself.                                           *)
(***************************************************************************)
EXTENDS Integers, Sequences, FiniteSets, TLC

VARIABLES
    historical_data,     \* self.historical_data['job_execution_history']
    job_configs,         \* self.job_configs['jobs']
    cluster_config,      \* self.cluster_config
    pc,                  \* where run_interactive_demo is blocked
    job_config,          \* the job_config of the current cycle
    historical_context,  \* the last value returned by get_historical_context
    prompt,              \* the prompt composed in the current cycle
    lifecycle,           \* the states the current request went through
    api_calls,           \* calls of client.messages.create in the current cycle
    response_text,       \* message.content[0].text as received
    json_arg,            \* the argument handed to json.loads
    predictions,         \* the value predict_with_claude returned
    console,             \* what the current cycle printed outside display_predictions
    displayed,           \* what display_predictions printed in the current cycle
    saved                \* the files save_predictions wrote in the current cycle

vars == <<historical_data, job_configs, cluster_config, pc, job_config,
          historical_context, prompt, lifecycle, api_calls, response_text,
          json_arg, predictions, console, displayed, saved>>

loaded == <<historical_data, job_configs, cluster_config>>

----------------------------------------------------------------------------
(* Bounds of the model *)

MaxChunks == 5

MaxRecords == 4

MaxDate == 3

(* Program constants *)

ExcerptLen == 500

RecentFailures == 3

HighRisk == 70

MediumRisk == 40

MaxProbability == 100

----------------------------------------------------------------------------
(* Python values *)

None == [t |-> "None"]

Unset == [t |-> "unset"]

Dict(r) == [t |-> "dict", v |-> r]

List(s) == [t |-> "list", v |-> s]

EmptyDict == [k \in {} |-> 0]

\* dict.get(key, default)
Get(d, key, default) == IF key \in DOMAIN d THEN d[key] ELSE default

\* bool(value) for the values json.loads can return here
Truthy(val) ==
    CASE val.t = "None" -> FALSE
      [] val.t = "dict" -> DOMAIN val.v # {}
      [] val.t = "list" -> Len(val.v) > 0
      [] OTHER -> FALSE

----------------------------------------------------------------------------
(* Texts: str.find, str.split, the in operator, str.strip, slicing *)

\* the backtick character (a backquote cannot be written in a string here)
Backtick == "BQ"

Fence == <<Backtick, Backtick, Backtick>>

JsonTag == <<"j", "s", "o", "n">>

JsonFence == Fence \o JsonTag

Whitespace == {" "}

IsAt(s, sep, i) ==
    /\ i >= 1
    /\ i + Len(sep) - 1 <= Len(s)
    /\ SubSeq(s, i, i + Len(sep) - 1) = sep

\* s.find(sep) searched from position i, 1-based; 0 when sep does not occur
RECURSIVE Find(_, _, _)
Find(s, sep, i) ==
    IF i + Len(sep) - 1 > Len(s) THEN 0
    ELSE IF IsAt(s, sep, i) THEN i
    ELSE Find(s, sep, i + 1)

\* sep in s
Contains(s, sep) == Find(s, sep, 1) # 0

\* s.split(sep): the pieces between the non-overlapping occurrences of sep,
\* scanned from the left
RECURSIVE Split(_, _)
Split(s, sep) ==
    LET i == Find(s, sep, 1)
    IN  IF i = 0 THEN <<s>>
        ELSE <<SubSeq(s, 1, i - 1)>> \o Split(SubSeq(s, i + Len(sep), Len(s)), sep)

RECURSIVE LStrip(_)
LStrip(s) ==
    IF s # <<>> /\ Head(s) \in Whitespace THEN LStrip(Tail(s)) ELSE s

RECURSIVE RStrip(_)
RStrip(s) ==
    IF s # <<>> /\ s[Len(s)] \in Whitespace
    THEN RStrip(SubSeq(s, 1, Len(s) - 1))
    ELSE s

\* s.strip()
Strip(s) == RStrip(LStrip(s))

\* s[:n]
Take(s, n) == SubSeq(s, 1, IF Len(s) < n THEN Len(s) ELSE n)

----------------------------------------------------------------------------
(* JSON documents a reply can carry, and json.loads on the texts of the    *)
(* model.  No text over the other characters (backtick, j, s, o, n, x, *)
(* whitespace) is a JSON value, and neither is a document followed or      *)
(* preceded by anything: json.loads accepts exactly one document.  A       *)
(* document whose strings hold backticks is written out in parts.          *)

Categories ==
    {"pod_scheduling", "efs_mount", "memory_oomkill", "iam_permissions",
     "data_quality"}

Severities == {"LOW", "MEDIUM", "HIGH", "CRITICAL"}

EffortCategories == {"SIMPLE", "MEDIUM", "COMPLEX", "CRITICAL"}

Category(p, sev) ==
    [probability |-> p, severity |-> sev, root_cause |-> "cause",
     recommendations |-> <<"fix">>]

FivePredictions(p) ==
    [pod_scheduling  |-> Category(p, "HIGH"),
     efs_mount       |-> Category(10, "LOW"),
     memory_oomkill  |-> Category(45, "MEDIUM"),
     iam_permissions |-> Category(0, "LOW"),
     data_quality    |-> Category(80, "CRITICAL")]

FourPredictions ==
    [pod_scheduling  |-> Category(35, "HIGH"),
     efs_mount       |-> Category(10, "LOW"),
     memory_oomkill  |-> Category(45, "MEDIUM"),
     iam_permissions |-> Category(0, "LOW")]

Overall(go) ==
    [should_execute |-> go, overall_severity |-> "HIGH",
     overall_probability |-> 60, recommendation |-> "advice"]

Effort ==
    [category |-> "MEDIUM", story_points |-> 5, estimated_hours |-> "8-16"]

DocAtoms ==
    {"DOC_GO", "DOC_NOGO", "DOC_P101", "DOC_NO_DQ", "DOC_NO_EFFORT",
     "DOC_NO_OVERALL", "DOC_EMPTY", "DOC_LIST", "DOC_NULL"}

\* the value each document denotes
DocValue(atom) ==
    CASE atom = "DOC_GO" ->
            Dict([predictions |-> FivePredictions(35),
                  overall_assessment |-> Overall(TRUE),
                  estimated_effort |-> Effort])
      [] atom = "DOC_NOGO" ->
            Dict([predictions |-> FivePredictions(75),
                  overall_assessment |-> Overall(FALSE),
                  estimated_effort |-> Effort])
      [] atom = "DOC_P101" ->
            Dict([predictions |-> FivePredictions(101),
                  overall_assessment |-> Overall(FALSE),
                  estimated_effort |-> Effort])
      [] atom = "DOC_NO_DQ" ->
            Dict([predictions |-> FourPredictions,
                  overall_assessment |-> Overall(TRUE),
                  estimated_effort |-> Effort])
      [] atom = "DOC_NO_EFFORT" ->
            Dict([predictions |-> FivePredictions(35),
                  overall_assessment |-> Overall(TRUE)])
      [] atom = "DOC_NO_OVERALL" ->
            Dict([predictions |-> FivePredictions(75),
                  estimated_effort |-> Effort])
      [] atom = "DOC_EMPTY" -> Dict(EmptyDict)
      [] atom = "DOC_LIST" -> List(<<1>>)
      [] atom = "DOC_NULL" -> None

\* the text of a document of the full schema whose pod_scheduling root
\* cause is a string that quotes a fenced fragment: the part of the document
\* before the fragment, the fence, the fragment (itself the text of the
\* document DOC_LIST), the fence, and the rest of the document
FencedCauseText ==
    <<"PART_HEAD">> \o Fence \o <<"DOC_LIST">> \o Fence \o <<"PART_TAIL">>

\* the value that text denotes
FencedCauseValue ==
    Dict([predictions |->
              [FivePredictions(35) EXCEPT !.pod_scheduling.root_cause = "fenced"],
          overall_assessment |-> Overall(FALSE),
          estimated_effort |-> Effort])

\* json.loads(s): the value, or JSONDecodeError
JsonLoads(s) ==
    IF Len(s) = 1 /\ s[1] \in DocAtoms
    THEN [ok |-> TRUE, value |-> DocValue(s[1])]
    ELSE IF s = FencedCauseText
    THEN [ok |-> TRUE, value |-> FencedCauseValue]
    ELSE [ok |-> FALSE, value |-> None]

----------------------------------------------------------------------------
(* predict_with_claude, from the reply on (lines 226-245) *)

\* lines 230-233: the text between the fences, when there are fences
ExtractPayload(text) ==
    IF Contains(text, JsonFence)
    THEN Split(Split(text, JsonFence)[2], Fence)[1]
    ELSE IF Contains(text, Fence)
    THEN Split(Split(text, Fence)[2], Fence)[1]
    ELSE text

\* line 235: the argument of json.loads
JsonArgument(text) == Strip(ExtractPayload(text))

\* line 241: the excerpt printed after a JSONDecodeError; response_text was
\* reassigned on lines 231/233
ParseErrorExcerpt(text) == Take(ExtractPayload(text), ExcerptLen)

ParseErrorMessage(text) ==
    <<[msg |-> "Error parsing Claude response", text |-> <<>>],
      [msg |-> "Response", text |-> ParseErrorExcerpt(text)]>>

\* line 244: the message names the exception
ApiErrorMessage(e) == <<[msg |-> "Error calling Claude API", text |-> <<e>>]>>

\* lines 226-242 for a reply whose content[0].text is text
HandleReply(text) ==
    LET r == JsonLoads(JsonArgument(text))
    IN  IF r.ok
        THEN [ret |-> r.value, outcome |-> "Parsed", printed |-> <<>>]
        ELSE [ret |-> None, outcome |-> "ParseFailed",
              printed |-> ParseErrorMessage(text)]

\* lines 243-245: any other exception e of the try block
HandleException(e) ==
    [ret |-> None, outcome |-> "ServiceError", printed |-> ApiErrorMessage(e)]

----------------------------------------------------------------------------
(* The presenter: _prob_color, _severity_color, display_predictions *)

\* the two thresholds taken as exclusive
_prob_color_exclusive(probability) ==
    IF probability > HighRisk THEN "FAIL"
    ELSE IF probability > MediumRisk THEN "WARNING"
    ELSE "OKGREEN"

\* lines 303-310
_prob_color(probability) ==
    IF probability >= HighRisk THEN "FAIL"
    ELSE IF probability >= MediumRisk THEN "WARNING"
    ELSE "OKGREEN"

_severity_color(severity) ==
    CASE severity = "CRITICAL" -> "FAIL"
      [] severity = "HIGH" -> "WARNING"
      [] severity = "MEDIUM" -> "OKCYAN"
      [] severity = "LOW" -> "OKGREEN"
      [] OTHER -> "ENDC"

NothingDisplayed ==
    [called |-> FALSE, raised |-> FALSE, header |-> FALSE, decision |-> "",
     severity |-> "", categories |-> EmptyDict, effort |-> <<>>]

\* lines 278-292: one block per entry of predictions['predictions']
CategoryLines(pred_details) ==
    [pred_type \in DOMAIN pred_details |->
        LET details == pred_details[pred_type]
            probability == Get(details, "probability", 0)
            severity == Get(details, "severity", "UNKNOWN")
        IN  [probability |-> probability,
             prob_color |-> _prob_color(probability),
             severity |-> severity,
             severity_color |-> _severity_color(severity),
             cause |-> Get(details, "root_cause", "N/A")]]

\* lines 256-268: the decision printed on the "Overall Decision" line
DecisionShown(overall) ==
    IF Get(overall, "should_execute", TRUE)
    THEN "SAFE TO EXECUTE"
    ELSE "DO NOT EXECUTE"

\* lines 247-301; a value without .get (a list) raises AttributeError on
\* line 257, after the header of line 254 is printed
display_predictions(preds) ==
    IF ~Truthy(preds)
    THEN [NothingDisplayed EXCEPT !.called = TRUE]
    ELSE IF preds.t # "dict"
    THEN [NothingDisplayed EXCEPT !.called = TRUE, !.header = TRUE,
                                  !.raised = TRUE]
    ELSE LET overall == Get(preds.v, "overall_assessment", EmptyDict)
             effort == Get(preds.v, "estimated_effort", EmptyDict)
         IN  [called |-> TRUE, raised |-> FALSE, header |-> TRUE,
              decision |-> DecisionShown(overall),
              severity |-> Get(overall, "overall_severity", "UNKNOWN"),
              categories |-> CategoryLines(Get(preds.v, "predictions", EmptyDict)),
              effort |-> IF DOMAIN effort # {} THEN <<effort>> ELSE <<>>]

----------------------------------------------------------------------------
(* collect_job_execution_history: the status of a collected record *)

\* line 277
StatusOf(succeeded, failed) ==
    IF succeeded > 0 THEN "SUCCESS"
    ELSE IF failed > 0 THEN "FAILED"
    ELSE "RUNNING"

----------------------------------------------------------------------------
(* get_historical_context *)

\* [x for x in xs if status == wanted]
RECURSIVE WithStatus(_, _)
WithStatus(xs, wanted) ==
    IF xs = <<>> THEN <<>>
    ELSE IF Head(xs).status = wanted
    THEN <<Head(xs)>> \o WithStatus(Tail(xs), wanted)
    ELSE WithStatus(Tail(xs), wanted)

\* lines 112-115
RECURSIVE JobHistory(_, _)
JobHistory(history, job_name) ==
    IF history = <<>> THEN <<>>
    ELSE IF Head(history).job_name = job_name
    THEN <<Head(history)>> \o JobHistory(Tail(history), job_name)
    ELSE JobHistory(Tail(history), job_name)

\* the averages taken over every record of the job
SuccessesOfAnyStatus(job_history) == job_history

\* line 120
Successes(job_history) == WithStatus(job_history, "SUCCESS")

\* every record that did not succeed counted as a failure
FailuresAndRunning(job_history) ==
    WithStatus(job_history, "FAILED") \o WithStatus(job_history, "RUNNING")

\* line 121
Failures(job_history) == WithStatus(job_history, "FAILED")

\* lines 130-131: failures[:3], each as "date: reason"
RecentFailureLines(failures) ==
    LET shown == Take(failures, RecentFailures)
    IN  [i \in 1..Len(shown) |->
            [execution_date |-> shown[i].execution_date,
             failure_reason |-> shown[i].failure_reason]]

\* sum(s['resources_used'][field] for s in successes)
RECURSIVE SumOf(_, _)
SumOf(xs, field) ==
    IF xs = <<>> THEN 0
    ELSE Head(xs).resources_used[field] + SumOf(Tail(xs), field)

\* f"{total / count:.1f}" for whole-number totals, in tenths: the quotient
\* rounded to one decimal, an exact tie (a quarter or three quarters, which
\* a float holds exactly) to the even digit; a zero count raises
FormatMean(total, count) ==
    IF count = 0 THEN [raised |-> "ZeroDivisionError", tenths |-> 0]
    ELSE LET q == (10 * total) \div count
             r == (10 * total) % count
         IN  [raised |-> "",
              tenths |-> IF 2 * r < count THEN q
                         ELSE IF 2 * r > count THEN q + 1
                         ELSE IF q % 2 = 0 THEN q ELSE q + 1]

\* line 133
HasSuccesses(successes) == successes # <<>>

\* lines 133-141
AverageLines(successes) ==
    IF HasSuccesses(successes)
    THEN <<[memory  |-> FormatMean(SumOf(successes, "peak_memory_gb"), Len(successes)),
            cpu     |-> FormatMean(SumOf(successes, "avg_cpu_cores"), Len(successes)),
            storage |-> FormatMean(SumOf(successes, "storage_used_gb"), Len(successes))]>>
    ELSE <<>>

\* the missing history reported as counts of zero
ZeroCounts ==
    [text |-> "Historical Context", job_name |-> "", total |-> <<0>>,
     successes |-> <<0>>, failures |-> <<0>>, recent_failures |-> <<>>,
     averages |-> <<>>]

\* line 118
NoHistoricalData ==
    [text |-> "No historical data available", job_name |-> "", total |-> <<>>,
     successes |-> <<>>, failures |-> <<>>, recent_failures |-> <<>>,
     averages |-> <<>>]

\* lines 110-143; the counts are one-element sequences, empty when the line
\* is not written
get_historical_context(history, job_name) ==
    LET job_history == JobHistory(history, job_name)
        successes == Successes(job_history)
        failures == Failures(job_history)
    IN  IF job_history = <<>>
        THEN NoHistoricalData
        ELSE [text |-> "Historical Context",
              job_name |-> job_name,
              total |-> <<Len(job_history)>>,
              successes |-> <<Len(successes)>>,
              failures |-> <<Len(failures)>>,
              recent_failures |-> RecentFailureLines(failures),
              averages |-> AverageLines(successes)]

----------------------------------------------------------------------------
(* The data load_demo_data reads, and the inputs of the model *)

\* SPDEMO_sample_job_configs.json: the fields the code reads
JobConfigs ==
    <<[job_name |-> "daily_etl", description |-> "daily load",
       schedule |-> "0 2 * * *"],
      [job_name |-> "weekly_report", description |-> "weekly report",
       schedule |-> "0 4 * * 0"]>>

\* a job no record and no configuration names
UnknownJob ==
    [job_name |-> "adhoc_job", description |-> "", schedule |-> ""]

Usage(memory, cpu, storage) ==
    [peak_memory_gb |-> memory, avg_cpu_cores |-> cpu,
     storage_used_gb |-> storage]

\* one execution record; execution_date n stands for the n-th timestamp in
\* time order, and the status is the one the collector derives
Execution(job_name, date, succeeded, failed, usage) ==
    [job_name |-> job_name, execution_date |-> date,
     status |-> StatusOf(succeeded, failed),
     failure_reason |-> IF succeeded = 0 /\ failed > 0 THEN "OOMKilled" ELSE "",
     resources_used |-> usage]

RecordPool ==
    {Execution("daily_etl", d, 0, 1, Usage(16, 4, 50)) : d \in 1..MaxDate}
    \cup {Execution("daily_etl", 1, 1, 0, Usage(8, 2, 10)),
          Execution("daily_etl", 2, 1, 1, Usage(13, 3, 25)),
          Execution("daily_etl", MaxDate, 0, 0, Usage(1, 1, 1)),
          Execution("weekly_report", 2, 0, 1, Usage(30, 8, 90)),
          Execution("weekly_report", 1, 1, 0, Usage(40, 6, 70))}

Histories == UNION {[1..n -> RecordPool] : n \in 0..MaxRecords}

\* the histories the interactive loop is run on
DemoHistories ==
    {<<>>,
     <<Execution("daily_etl", 1, 0, 1, Usage(16, 4, 50)),
       Execution("daily_etl", 1, 1, 0, Usage(8, 2, 10)),
       Execution("daily_etl", 2, 0, 1, Usage(16, 4, 50)),
       Execution("daily_etl", 2, 1, 1, Usage(13, 3, 25)),
       Execution("daily_etl", 3, 0, 0, Usage(1, 1, 1))>>}

\* lines 78-88: the configuration used when the YAML file cannot be loaded
FallbackClusterConfig ==
    Dict([cluster_info |-> [cluster_name |-> "bi-abi-apps-prod",
                            region |-> "us-east-1"],
          node_groups |-> <<[name |-> "data-processing-ng",
                             available_cpu |-> 20,
                             available_memory_gi |-> 280]>>])

\* config/eks_cluster_config.yaml as yaml.safe_load returns it
FileClusterConfig ==
    Dict([cluster_info |-> [cluster_name |-> "bi-abi-apps-prod",
                            region |-> "us-east-1"],
          node_groups |-> <<[name |-> "data-processing-ng",
                             available_cpu |-> 64,
                             available_memory_gi |-> 512]>>])

\* what reading config/eks_cluster_config.yaml can come to: the file is
\* read, the file is empty, or the import, the open or the parse raises
YamlOutcomes == {"loaded", "empty", "unavailable"}

\* lines 70-88: self.cluster_config after load_demo_data; yaml.safe_load
\* returns None for an empty file, and the bare except of line 76 puts the
\* built-in configuration in the place of a source that cannot be read
load_cluster_config(outcome) ==
    CASE outcome = "loaded" -> FileClusterConfig
      [] outcome = "empty" -> None
      [] outcome = "unavailable" -> FallbackClusterConfig

ClusterConfigs == {load_cluster_config(outcome) : outcome \in YamlOutcomes}

RECURSIVE Concat(_)
Concat(chunks) ==
    IF chunks = <<>> THEN <<>> ELSE Head(chunks) \o Concat(Tail(chunks))

Chunks ==
    {Fence, JsonTag, <<" ">>, <<"x">>, <<Backtick>>, <<"DOC_GO">>,
     <<"DOC_NO_DQ">>}

\* every reply text of at most MaxChunks chunks
Texts == {Concat(cs) : cs \in UNION {[1..n -> Chunks] : n \in 0..MaxChunks}}

Bodies == {<<d>> : d \in DocAtoms} \cup {<<"x">>, <<>>, <<"DOC_GO", "x">>}

Wrap(kind, body) ==
    CASE kind = "bare" -> body
      [] kind = "json" -> JsonFence \o <<" ">> \o body \o <<" ">> \o Fence
      [] kind = "plain" -> Fence \o <<" ">> \o body \o <<" ">> \o Fence
      [] kind = "prose" ->
            <<"x", " ">> \o JsonFence \o body \o Fence \o <<" ", "x">>

\* the documents of the full schema, as texts
Payloads == {<<"DOC_GO">>, <<"DOC_NOGO">>, FencedCauseText}

\* each of them as the whole reply and inside a JSON-tagged fence
RoundTripTexts ==
    {Wrap(kind, payload) : kind \in {"bare", "json"}, payload \in Payloads}

\* the reply texts the interactive loop is run on
LoopReplies ==
    {Wrap(kind, body) : kind \in {"bare", "json", "plain", "prose"},
                        body \in Bodies}

ServiceFailures == {"timeout", "auth", "quota", "transport"}

\* what the operator can type at the menu, and int() of it
MenuInputs == {"abc", "0", "1", "2", "3", "4", "5"}

IsNumber(choice) == choice \in {"0", "1", "2", "3", "4", "5"}

IntOf(choice) ==
    CASE choice = "0" -> 0
      [] choice = "1" -> 1
      [] choice = "2" -> 2
      [] choice = "3" -> 3
      [] choice = "4" -> 4
      [] choice = "5" -> 5

SaveInputs == {"y", "Y", "n", ""}

\* save.lower()
Lower(answer) == IF answer = "Y" THEN "y" ELSE answer

----------------------------------------------------------------------------
(* predict_with_claude, up to the service call (lines 148-213) *)

\* lines 152-211: the prompt, or the exception raised by the subscripts of
\* lines 165-167 when the cluster configuration is not a mapping
ComposePrompt(config, history, cluster) ==
    IF cluster.t # "dict"
    THEN [raised |-> "TypeError", job_config |-> config,
          historical_context |-> NoHistoricalData, available_cpu |-> <<>>,
          available_memory |-> <<>>, cluster |-> "", categories |-> {}]
    ELSE [raised |-> "", job_config |-> config,
          historical_context |-> get_historical_context(history, config.job_name),
          available_cpu |-> <<cluster.v.node_groups[1].available_cpu>>,
          available_memory |-> <<cluster.v.node_groups[1].available_memory_gi>>,
          cluster |-> cluster.v.cluster_info.cluster_name,
          categories |-> Categories]

NoPrompt ==
    [raised |-> "", job_config |-> UnknownJob,
     historical_context |-> NoHistoricalData, available_cpu |-> <<>>,
     available_memory |-> <<>>, cluster |-> "", categories |-> {}]

Say(msg) == <<[msg |-> msg, text |-> <<>>]>>

----------------------------------------------------------------------------
(* run_interactive_demo *)

\* a new pass of the while loop: nothing of the pass before is carried over
FreshCycle ==
    /\ job_config' = UnknownJob
    /\ historical_context' = NoHistoricalData
    /\ prompt' = NoPrompt
    /\ lifecycle' = <<>>
    /\ api_calls' = 0
    /\ response_text' = <<>>
    /\ json_arg' = <<>>
    /\ predictions' = Unset
    /\ displayed' = NothingDisplayed
    /\ saved' = <<>>

Init ==
    /\ historical_data \in DemoHistories
    /\ job_configs = JobConfigs
    /\ cluster_config \in ClusterConfigs
    /\ pc = "menu"
    /\ job_config = UnknownJob
    /\ historical_context = NoHistoricalData
    /\ prompt = NoPrompt
    /\ lifecycle = <<>>
    /\ api_calls = 0
    /\ response_text = <<>>
    /\ json_arg = <<>>
    /\ predictions = Unset
    /\ console = <<>>
    /\ displayed = NothingDisplayed
    /\ saved = <<>>

\* lines 387-388, 421-422: int(choice) raises ValueError
EnterNonNumber(choice) ==
    /\ pc = "menu"
    /\ ~IsNumber(choice)
    /\ FreshCycle
    /\ console' = Say("Please enter a number")
    /\ UNCHANGED <<loaded, pc>>

\* lines 418-419
ChooseInvalid(choice) ==
    /\ pc = "menu"
    /\ IsNumber(choice)
    /\ IntOf(choice) < 1 \/ IntOf(choice) > Len(job_configs) + 2
    /\ FreshCycle
    /\ console' = Say("Invalid option")
    /\ UNCHANGED <<loaded, pc>>

\* lines 395-398
ChooseExit(choice) ==
    /\ pc = "menu"
    /\ IsNumber(choice)
    /\ IntOf(choice) = Len(job_configs) + 2
    /\ FreshCycle
    /\ console' = Say("Thank you for using the EKS Job Predictor!")
    /\ pc' = "exited"
    /\ UNCHANGED loaded

\* lines 390-392 and 322-362: analyze_historical_failures up to its service
\* call, or up to its return when the history holds no failure
ChooseAnalysis(choice) ==
    /\ pc = "menu"
    /\ IsNumber(choice)
    /\ IntOf(choice) = Len(job_configs) + 1
    /\ FreshCycle
    /\ IF WithStatus(historical_data, "FAILED") = <<>>
       THEN /\ console' = Say("No failures found in historical data")
            /\ pc' = "continue_prompt"
       ELSE /\ console' = Say("Analyzing with Claude AI...")
            /\ pc' = "analysis"
    /\ UNCHANGED loaded

\* lines 364-375
AnalysisReply ==
    /\ pc = "analysis"
    /\ console' = console \o Say("analysis")
    /\ pc' = "continue_prompt"
    /\ UNCHANGED <<loaded, job_config, historical_context, prompt, lifecycle,
                   api_calls, response_text, json_arg, predictions, displayed,
                   saved>>

\* lines 377-378
AnalysisFails(failure) ==
    /\ pc = "analysis"
    /\ console' = console \o <<[msg |-> "Error", text |-> <<failure>>]>>
    /\ pc' = "continue_prompt"
    /\ UNCHANGED <<loaded, job_config, historical_context, prompt, lifecycle,
                   api_calls, response_text, json_arg, predictions, displayed,
                   saved>>

\* lines 400-406 and 148-213: the job is selected and its prompt composed;
\* an exception of the composition is caught on lines 426-427
ChooseJob(choice) ==
    /\ pc = "menu"
    /\ IsNumber(choice)
    /\ 1 <= IntOf(choice) /\ IntOf(choice) <= Len(job_configs)
    /\ LET config == job_configs[IntOf(choice)]
           composed == ComposePrompt(config, historical_data, cluster_config)
       IN  /\ job_config' = config
           /\ historical_context' =
                  get_historical_context(historical_data, config.job_name)
           /\ IF composed.raised # ""
              THEN /\ prompt' = NoPrompt
                   /\ lifecycle' = <<>>
                   /\ console' = <<[msg |-> "Error", text |-> <<composed.raised>>]>>
                   /\ pc' = "menu"
              ELSE /\ prompt' = composed
                   /\ lifecycle' = <<"Composed">>
                   /\ console' = Say("Analyzing with Claude AI...")
                   /\ pc' = "composed"
    /\ api_calls' = 0
    /\ response_text' = <<>>
    /\ json_arg' = <<>>
    /\ predictions' = Unset
    /\ displayed' = NothingDisplayed
    /\ saved' = <<>>
    /\ UNCHANGED loaded

\* line 216: the one call of client.messages.create
SendRequest ==
    /\ pc = "composed"
    /\ api_calls' = api_calls + 1
    /\ lifecycle' = lifecycle \o <<"Sent", "AwaitingReply">>
    /\ pc' = "awaiting"
    /\ UNCHANGED <<loaded, job_config, historical_context, prompt,
                   response_text, json_arg, predictions, console, displayed,
                   saved>>

\* a failed request sent again instead of being given up
AfterPredictRetry(handled) ==
    /\ predictions' = handled.ret
    /\ displayed' = NothingDisplayed
    /\ console' = console \o handled.printed
    /\ IF handled.outcome = "Parsed"
       THEN /\ lifecycle' = lifecycle \o <<handled.outcome>>
            /\ pc' = "continue_prompt"
       ELSE /\ lifecycle' = <<"Composed">>
            /\ pc' = "composed"

\* lines 408-416 for the outcome of predict_with_claude: the value it
\* returned and what it printed
AfterPredict(handled) ==
    /\ predictions' = handled.ret
    /\ lifecycle' = lifecycle \o <<handled.outcome>>
    /\ IF Truthy(handled.ret)
       THEN LET shown == display_predictions(handled.ret)
            IN  /\ displayed' = shown
                /\ IF shown.raised
                   THEN /\ console' = console \o handled.printed
                                       \o <<[msg |-> "Error", text |-> <<"AttributeError">>]>>
                        /\ pc' = "menu"
                   ELSE /\ console' = console \o handled.printed
                        /\ pc' = "save_prompt"
       ELSE /\ displayed' = NothingDisplayed
            /\ console' = console \o handled.printed
            /\ pc' = "continue_prompt"

\* lines 226-242 and 408-416: a reply arrives; it is parsed, and displayed
\* when the parsed value is truthy
ReceiveReply(text) ==
    /\ pc = "awaiting"
    /\ response_text' = text
    /\ json_arg' = JsonArgument(text)
    /\ AfterPredict(HandleReply(text))
    /\ UNCHANGED <<loaded, job_config, historical_context, prompt, api_calls,
                   saved>>

\* lines 226, 243-245: a reply without content; content[0] raises IndexError
ReceiveEmptyReply ==
    /\ pc = "awaiting"
    /\ AfterPredict(HandleException("IndexError"))
    /\ UNCHANGED <<loaded, job_config, historical_context, prompt, api_calls,
                   response_text, json_arg, saved>>

\* lines 216, 243-245: the service call raises
ServiceFails(failure) ==
    /\ pc = "awaiting"
    /\ AfterPredict(HandleException(failure))
    /\ UNCHANGED <<loaded, job_config, historical_context, prompt, api_calls,
                   response_text, json_arg, saved>>

\* the exception of a failed write left uncaught: it ends the loop
AnswerSaveUncaught(answer, written) ==
    /\ pc = "save_prompt"
    /\ IF Lower(answer) = "y"
       THEN IF written
            THEN /\ saved' = <<[job_name |-> job_config.job_name,
                                predictions |-> predictions]>>
                 /\ console' = console \o Say("Saved")
                 /\ pc' = "continue_prompt"
            ELSE /\ saved' = saved
                 /\ console' = console \o <<[msg |-> "Fatal error", text |-> <<"OSError">>]>>
                 /\ pc' = "exited"
       ELSE /\ written
            /\ UNCHANGED <<saved, console>>
            /\ pc' = "continue_prompt"
    /\ UNCHANGED <<loaded, job_config, historical_context, prompt, lifecycle,
                   api_calls, response_text, json_arg, predictions, displayed>>

\* lines 412-416 and 429-443: the answer to "Save predictions to file?";
\* written tells whether open() and json.dump succeed, and their exception
\* is caught on lines 426-427
AnswerSave(answer, written) ==
    /\ pc = "save_prompt"
    /\ IF Lower(answer) = "y"
       THEN IF written
            THEN /\ saved' = <<[job_name |-> job_config.job_name,
                                predictions |-> predictions]>>
                 /\ console' = console \o Say("Saved")
                 /\ pc' = "continue_prompt"
            ELSE /\ saved' = saved
                 /\ console' = console \o <<[msg |-> "Error", text |-> <<"OSError">>]>>
                 /\ pc' = "menu"
       ELSE /\ written
            /\ UNCHANGED <<saved, console>>
            /\ pc' = "continue_prompt"
    /\ UNCHANGED <<loaded, job_config, historical_context, prompt, lifecycle,
                   api_calls, response_text, json_arg, predictions, displayed>>

\* lines 393, 416: "Press Enter to continue..."
PressEnter ==
    /\ pc = "continue_prompt"
    /\ pc' = "menu"
    /\ UNCHANGED <<loaded, job_config, historical_context, prompt, lifecycle,
                   api_calls, response_text, json_arg, predictions, console,
                   displayed, saved>>

\* lines 387, 393, 412, 416 and 426-427: input() raises EOFError (the input
\* stream is closed); the exception is caught and the loop goes on
InputFails ==
    /\ pc \in {"menu", "save_prompt", "continue_prompt"}
    /\ IF pc = "menu"
       THEN /\ FreshCycle
            /\ console' = <<[msg |-> "Error", text |-> <<"EOFError">>]>>
       ELSE /\ console' = console \o <<[msg |-> "Error", text |-> <<"EOFError">>]>>
            /\ UNCHANGED <<job_config, historical_context, prompt, lifecycle,
                           api_calls, response_text, json_arg, predictions,
                           displayed, saved>>
    /\ pc' = "menu"
    /\ UNCHANGED loaded

\* lines 423-425: Ctrl-C at an input() or during a service call
KeyboardInterrupt ==
    /\ pc \in {"menu", "analysis", "awaiting", "save_prompt", "continue_prompt"}
    /\ console' = console \o Say("Exiting...")
    /\ pc' = "exited"
    /\ UNCHANGED <<loaded, job_config, historical_context, prompt, lifecycle,
                   api_calls, response_text, json_arg, predictions, displayed,
                   saved>>

Next ==
    \/ \E choice \in MenuInputs : EnterNonNumber(choice)
    \/ \E choice \in MenuInputs : ChooseInvalid(choice)
    \/ \E choice \in MenuInputs : ChooseExit(choice)
    \/ \E choice \in MenuInputs : ChooseAnalysis(choice)
    \/ \E choice \in MenuInputs : ChooseJob(choice)
    \/ AnalysisReply
    \/ \E failure \in ServiceFailures : AnalysisFails(failure)
    \/ SendRequest
    \/ \E text \in LoopReplies : ReceiveReply(text)
    \/ ReceiveEmptyReply
    \/ \E failure \in ServiceFailures : ServiceFails(failure)
    \/ \E answer \in SaveInputs, written \in BOOLEAN : AnswerSave(answer, written)
    \/ PressEnter
    \/ InputFails
    \/ KeyboardInterrupt

Spec == Init /\ [][Next]_vars

\* a blocking call returns or raises: input() when the operator answers a
\* prompt that follows a choice, the service call when the reply or the
\* failure arrives.  The operator may stay at the menu for ever.
Progress == Next /\ pc # "menu"

LiveSpec == Spec /\ WF_vars(Progress)

----------------------------------------------------------------------------
(* The reply handling of predict_with_claude on every text *)

ParseInit ==
    /\ historical_data = <<>>
    /\ job_configs = JobConfigs
    /\ cluster_config = FallbackClusterConfig
    /\ pc = "reply"
    /\ job_config = JobConfigs[1]
    /\ historical_context = NoHistoricalData
    /\ prompt = ComposePrompt(JobConfigs[1], <<>>, FallbackClusterConfig)
    /\ lifecycle = <<"Composed", "Sent", "AwaitingReply">>
    /\ api_calls = 1
    /\ response_text \in Texts \cup RoundTripTexts
    /\ json_arg = <<>>
    /\ predictions = Unset
    /\ console = <<>>
    /\ displayed = NothingDisplayed
    /\ saved = <<>>

\* lines 226-242: from the reply text to the return
ParseReply ==
    /\ pc = "reply"
    /\ LET handled == HandleReply(response_text)
       IN  /\ json_arg' = JsonArgument(response_text)
           /\ predictions' = handled.ret
           /\ lifecycle' = lifecycle \o <<handled.outcome>>
           /\ console' = handled.printed
    /\ pc' = "returned"
    /\ UNCHANGED <<loaded, job_config, historical_context, prompt, api_calls,
                   response_text, displayed, saved>>

ParseNext == ParseReply

ParseSpec == ParseInit /\ [][ParseNext]_vars

----------------------------------------------------------------------------
(* get_historical_context on every history *)

HistInit ==
    /\ historical_data \in Histories
    /\ job_configs = JobConfigs
    /\ cluster_config = FallbackClusterConfig
    /\ pc = "history"
    /\ job_config = UnknownJob
    /\ historical_context = NoHistoricalData
    /\ prompt = NoPrompt
    /\ lifecycle = <<>>
    /\ api_calls = 0
    /\ response_text = <<>>
    /\ json_arg = <<>>
    /\ predictions = Unset
    /\ console = <<>>
    /\ displayed = NothingDisplayed
    /\ saved = <<>>

\* line 149: get_historical_context(job_name)
Summarize(config) ==
    /\ pc \in {"history", "summarized"}
    /\ job_config' = config
    /\ historical_context' = get_historical_context(historical_data, config.job_name)
    /\ pc' = "summarized"
    /\ UNCHANGED <<loaded, prompt, lifecycle, api_calls, response_text,
                   json_arg, predictions, console, displayed, saved>>

HistNext ==
    \E config \in {JobConfigs[1], JobConfigs[2], UnknownJob} : Summarize(config)

HistSpec == HistInit /\ [][HistNext]_vars

----------------------------------------------------------------------------
(* display_predictions on a result with every probability of the scale *)

\* line 179: the probabilities the reply is asked for
Probabilities == 0..MaxProbability

BandInit ==
    /\ historical_data = <<>>
    /\ job_configs = JobConfigs
    /\ cluster_config = FallbackClusterConfig
    /\ pc = "result"
    /\ job_config = JobConfigs[1]
    /\ historical_context = NoHistoricalData
    /\ prompt = ComposePrompt(JobConfigs[1], <<>>, FallbackClusterConfig)
    /\ lifecycle = <<"Composed", "Sent", "AwaitingReply", "Parsed">>
    /\ api_calls = 1
    /\ response_text = <<>>
    /\ json_arg = <<>>
    /\ \E probability \in Probabilities :
          predictions = Dict([predictions |-> FivePredictions(probability),
                              overall_assessment |-> Overall(TRUE),
                              estimated_effort |-> Effort])
    /\ console = <<>>
    /\ displayed = NothingDisplayed
    /\ saved = <<>>

\* lines 408-409: the result is displayed
DisplayResult ==
    /\ pc = "result"
    /\ Truthy(predictions)
    /\ displayed' = display_predictions(predictions)
    /\ pc' = "displayed"
    /\ UNCHANGED <<loaded, job_config, historical_context, prompt, lifecycle,
                   api_calls, response_text, json_arg, predictions, console,
                   saved>>

BandNext == DisplayResult

BandSpec == BandInit /\ [][BandNext]_vars

----------------------------------------------------------------------------
(* Vocabulary of the properties *)

Last(seq) == seq[Len(seq)]

\* predict_with_claude has returned in the current cycle
Returned ==
    /\ lifecycle # <<>>
    /\ Last(lifecycle) \in {"Parsed", "ParseFailed", "ServiceError"}

\* all five categories and the overall assessment are present
WellFormedResult(val) ==
    /\ val.t = "dict"
    /\ "predictions" \in DOMAIN val.v
    /\ Categories \subseteq DOMAIN val.v.predictions
    /\ "overall_assessment" \in DOMAIN val.v

\* the schema of the reply: well-formed, with the effort estimate, every
\* probability an integer of 0..100 and every severity and category one of
\* its enumerated values
SchemaCompliant(val) ==
    /\ WellFormedResult(val)
    /\ "estimated_effort" \in DOMAIN val.v
    /\ \A c \in Categories :
          /\ val.v.predictions[c].probability \in 0..100
          /\ val.v.predictions[c].severity \in Severities
    /\ val.v.overall_assessment.should_execute \in BOOLEAN
    /\ val.v.overall_assessment.overall_severity \in Severities
    /\ val.v.estimated_effort.category \in EffortCategories

\* the current cycle ended in a service error, a JSON syntax failure or a
\* schema violation
CycleFailed ==
    /\ Returned
    /\ \/ Last(lifecycle) \in {"ServiceError", "ParseFailed"}
       \/ ~SchemaCompliant(predictions)

Min(S) == CHOOSE m \in S : \A k \in S : m <= k

Abs(n) == IF n < 0 THEN -n ELSE n

----------------------------------------------------------------------------
(* Properties *)

\* C1: whenever predict_with_claude returns a value other than the failure
\* value None, that value is fully well-formed: it has 'predictions' with all
\* five categories and 'overall_assessment'; no partial result is returned.
C1_AllOrNothing ==
    (Returned /\ predictions # None) => WellFormedResult(predictions)

\* C2: in every prediction cycle of the interactive loop that ends in a
\* service error, a JSON syntax failure or a schema violation, nothing is
\* displayed by display_predictions and nothing is saved.
C2_NoFailedResultShownOrSaved ==
    CycleFailed => (~displayed.header /\ saved = <<>>)

\* the payload as section 4.4 of the design chooses it, by positions
Occurrences(text, sep, from) == {i \in from..Len(text) : IsAt(text, sep, i)}

Max(S) == CHOOSE m \in S : \A k \in S : m >= k

Between(text, opening) ==
    LET start == Min(Occurrences(text, opening, 1)) + Len(opening)
        closers == Occurrences(text, Fence, start)
        stop == IF closers = {} THEN Len(text) + 1 ELSE Min(closers)
    IN  SubSeq(text, start, stop - 1)

ChosenPayload(text) ==
    IF Occurrences(text, JsonFence, 1) # {} THEN Between(text, JsonFence)
    ELSE IF Occurrences(text, Fence, 1) # {} THEN Between(text, Fence)
    ELSE text

Trimmed(text) ==
    LET keep == {i \in 1..Len(text) : text[i] \notin Whitespace}
    IN  IF keep = {} THEN <<>> ELSE SubSeq(text, Min(keep), Max(keep))

\* C3: the payload handed to the JSON parser is the content between the
\* first JSON-tagged opening fence and the next fence after it when the text
\* holds a JSON-tagged fence; else the content between the first fence and
\* the next fence when it holds any fence; else the full text; trimmed of
\* surrounding whitespace in every case.  Where no closing fence follows the
\* opening one, the content runs to the end of the text.
C3_PayloadPriority ==
    pc = "returned" => json_arg = Trimmed(ChosenPayload(response_text))

\* a reply whose JSON-tagged fence follows an untagged one and is closed,
\* parsed to the document between the tagged fence and its closing fence
C3_Witness ==
    /\ pc = "returned"
    /\ Occurrences(response_text, JsonFence, 1) # {}
    /\ Min(Occurrences(response_text, Fence, 1))
         < Min(Occurrences(response_text, JsonFence, 1))
    /\ Occurrences(response_text, Fence,
                   Min(Occurrences(response_text, JsonFence, 1)) + Len(JsonFence)) # {}
    /\ json_arg = <<"DOC_GO">>
    /\ predictions = DocValue("DOC_GO")

\* C4: for a reply that is not valid JSON after fence extraction and
\* trimming, predict_with_claude returns the failure value without raising,
\* and the excerpt it prints is the first 500 characters of the reply text
\* as received from the service.
C4_ExcerptOfRawReply ==
    (pc = "returned" /\ ~JsonLoads(json_arg).ok) =>
        /\ predictions = None
        /\ Last(lifecycle) = "ParseFailed"
        /\ Len(console) = 2
        /\ console[2].text =
              SubSeq(response_text, 1, Min({Len(response_text), ExcerptLen}))

\* C5: a reply that parses as JSON but violates the schema (a probability of
\* 101, no data_quality category, no estimated_effort) is rejected with an
\* outcome of its own, neither the parsed result nor the syntax failure.
C5_SchemaViolationRejected ==
    (Returned /\ json_arg \in {<<"DOC_P101">>, <<"DOC_NO_DQ">>, <<"DOC_NO_EFFORT">>}) =>
        /\ predictions.t # "dict"
        /\ Last(lifecycle) \notin {"Parsed", "ParseFailed"}

\* outside the one pattern on which C3 fails (a JSON-tagged fence directly
\* preceded by a backtick) the payload is the one C3 describes
C3_AgreesElsewhere ==
    (pc = "returned"
       /\ Occurrences(response_text, <<Backtick>> \o JsonFence, 1) = {}) =>
        json_arg = Trimmed(ChosenPayload(response_text))

\* the lifecycle of a request
Linear == <<"Composed", "Sent", "AwaitingReply">>

Terminal == {"Parsed", "ParseFailed", "ServiceError"}

IsPrefix(a, b) == Len(a) <= Len(b) /\ a = SubSeq(b, 1, Len(a))

C6_State ==
    /\ Len(lifecycle) <= Len(Linear) + 1
    /\ \A i \in 1..Len(lifecycle) :
          IF i <= Len(Linear) THEN lifecycle[i] = Linear[i]
          ELSE lifecycle[i] \in Terminal
    /\ api_calls <= 1
    /\ api_calls = 1 <=> Len(lifecycle) >= 2
    /\ (Returned /\ Last(lifecycle) # "Parsed") =>
          /\ predictions = None
          /\ \E i \in 1..Len(console) :
                console[i].msg \in {"Error parsing Claude response",
                                    "Error calling Claude API"}
          /\ ~displayed.called
          /\ saved = <<>>

C6_Step ==
    /\ pc # "menu" => IsPrefix(lifecycle, lifecycle') /\ api_calls' >= api_calls
    /\ (Returned /\ pc # "menu") =>
          lifecycle' = lifecycle /\ api_calls' = api_calls

\* C6: a prediction request goes through Composed, Sent, AwaitingReply and
\* then at most one of Parsed, ParseFailed, ServiceError, in this order and
\* without revisiting a state; the service is called at most once per
\* request; once the request has ended nothing is sent again until the
\* operator makes a new choice at the menu; a failure reaches the caller as
\* the value None with its error message printed, and nothing is displayed.
C6_LinearLifecycle == [](C6_State) /\ [][C6_Step]_vars

\* a request that was sent once and ended in a parse failure
C6_Witness ==
    /\ lifecycle = Linear \o <<"ParseFailed">>
    /\ api_calls = 1
    /\ pc = "continue_prompt"
    /\ predictions = None

\* what the caller receives for a reply that is not JSON
ParseFailureValue == HandleReply(<<"x">>).ret

\* C7: when the service call fails, the caller of predict_with_claude
\* receives the failure as such: what it receives differs from what it
\* receives for a reply that could not be parsed.
C7_ServiceErrorDistinct ==
    (Returned /\ Last(lifecycle) = "ServiceError") =>
        predictions # ParseFailureValue

\* the records of the history that name the job, by position
Matching(job_name) ==
    {i \in DOMAIN historical_data : historical_data[i].job_name = job_name}

OfStatus(job_name, status) ==
    {i \in Matching(job_name) : historical_data[i].status = status}

RECURSIVE SumOver(_, _)
SumOver(S, field) ==
    IF S = {} THEN 0
    ELSE LET i == CHOOSE k \in S : TRUE
         IN  historical_data[i].resources_used[field] + SumOver(S \ {i}, field)

\* C8: the recent failures listed are at most 3 FAILED records of the job,
\* those with the latest execution timestamps, in descending timestamp
\* order, whatever the order of the records in the input.
C8_ThreeLatestFailures ==
    (pc = "summarized" /\ Matching(job_config.job_name) # {}) =>
        LET failed == OfStatus(job_config.job_name, "FAILED")
            listed == historical_context.recent_failures
        IN  /\ Len(listed) = Min({RecentFailures, Cardinality(failed)})
            /\ \A i, j \in 1..Len(listed) :
                  i < j => listed[i].execution_date >= listed[j].execution_date
            /\ \A d \in 1..(MaxDate + 1) :
                  Cardinality({i \in 1..Len(listed) : listed[i].execution_date >= d})
                    = Min({RecentFailures,
                           Cardinality({k \in failed :
                                          historical_data[k].execution_date >= d})})

\* C9: for a nonempty set of records of the requested job, the number of
\* successes and of failures written in the context plus the number of
\* RUNNING records of the job equals the total written in the context,
\* which is the number of records of the job.
C9_CountsPartition ==
    (pc = "summarized" /\ Matching(job_config.job_name) # {}) =>
        /\ historical_context.total = <<Cardinality(Matching(job_config.job_name))>>
        /\ historical_context.successes[1] + historical_context.failures[1]
             + Cardinality(OfStatus(job_config.job_name, "RUNNING"))
           = historical_context.total[1]

\* records of the job in all three statuses, beside a record of another job
C9_Witness ==
    /\ pc = "summarized"
    /\ historical_context.text = "Historical Context"
    /\ historical_context.successes[1] >= 1
    /\ historical_context.failures[1] >= 1
    /\ OfStatus(job_config.job_name, "RUNNING") # {}
    /\ Len(historical_data) > historical_context.total[1]

\* the lines of the averages and the fields they average
AverageFields ==
    {<<"memory", "peak_memory_gb">>, <<"cpu", "avg_cpu_cores">>,
     <<"storage", "storage_used_gb">>}

\* C10: get_historical_context never divides by zero; with no SUCCESS
\* record of the job the resource averages are absent from the context;
\* with at least one, each average written is the arithmetic mean over the
\* SUCCESS records of the job, to the one decimal written.
C10_MeansOverSuccessesOnly ==
    pc = "summarized" =>
        LET succeeded == OfStatus(job_config.job_name, "SUCCESS")
            n == Cardinality(succeeded)
            averages == historical_context.averages
        IN  /\ n = 0 => averages = <<>>
            /\ n > 0 =>
                  /\ Len(averages) = 1
                  /\ \A f \in AverageFields :
                        /\ averages[1][f[1]].raised = ""
                        /\ 2 * Abs(10 * SumOver(succeeded, f[2])
                                     - averages[1][f[1]].tenths * n) <= n

\* two SUCCESS records with different usage beside a FAILED record of the
\* job: the mean written, 10.5 GB, is the one of the two successes
C10_Witness ==
    /\ pc = "summarized"
    /\ Cardinality(OfStatus(job_config.job_name, "SUCCESS")) = 2
    /\ OfStatus(job_config.job_name, "FAILED") # {}
    /\ Len(historical_context.averages) = 1
    /\ historical_context.averages[1].memory.tenths = 105

\* C11: when no execution record has a job name equal to the requested job
\* name, get_historical_context returns the marker "No historical data
\* available" and writes no count, no failure and no average (not zeros),
\* and the prompt composed for the job embeds that marker.
C11_NoDataMarker ==
    (job_config # UnknownJob /\ Matching(job_config.job_name) = {}) =>
        /\ historical_context.text = "No historical data available"
        /\ historical_context.total = <<>>
        /\ historical_context.successes = <<>>
        /\ historical_context.failures = <<>>
        /\ historical_context.recent_failures = <<>>
        /\ historical_context.averages = <<>>
        /\ lifecycle # <<>> => prompt.historical_context = historical_context

\* a request sent for a job that no record names, while the history holds
\* records of another job
C11_Witness ==
    /\ pc = "awaiting"
    /\ api_calls = 1
    /\ historical_data # <<>>
    /\ Matching(job_config.job_name) = {}
    /\ prompt.job_config = job_config
    /\ prompt.historical_context.text = "No historical data available"
    /\ prompt.historical_context.total = <<>>

\* C12: when the cluster-capacity source is unavailable, no prompt is
\* composed and no request is sent to the prediction service: no capacity
\* figure that the source did not give is ever put into a prompt.
C12_FailFastWithoutCapacity ==
    cluster_config = load_cluster_config("unavailable") =>
        /\ lifecycle = <<>>
        /\ api_calls = 0
        /\ prompt.available_cpu = <<>>
        /\ prompt.available_memory = <<>>

\* the overall assessment of the result that was displayed
DisplayedOverall == Get(predictions.v, "overall_assessment", EmptyDict)

DecisionOf(should_execute) ==
    IF should_execute THEN "SAFE TO EXECUTE" ELSE "DO NOT EXECUTE"

\* C13: for every result passed to display_predictions, the decision shown
\* on the "Overall Decision" line is the one of the should_execute value
\* that the result's overall_assessment carries, and no decision is shown
\* when the overall_assessment carries none.
C13_DecisionAsCarried ==
    (displayed.header /\ ~displayed.raised) =>
        IF "should_execute" \in DOMAIN DisplayedOverall
        THEN displayed.decision = DecisionOf(DisplayedOverall.should_execute)
        ELSE displayed.decision = ""

\* where the overall_assessment carries should_execute, the decision shown
\* is the one it carries
C13_CarriedDecisionShown ==
    (displayed.header /\ ~displayed.raised
       /\ "should_execute" \in DOMAIN DisplayedOverall) =>
        displayed.decision = DecisionOf(DisplayedOverall.should_execute)

\* C14: for every syntactically valid, schema-compliant JSON payload, the
\* result of parsing the payload wrapped in a JSON-tagged fence equals the
\* result of parsing the same payload with no fence.
C14_FenceTransparent ==
    \A payload \in Payloads :
        (pc = "returned" /\ response_text = Wrap("json", payload)
           /\ JsonLoads(payload).ok /\ SchemaCompliant(JsonLoads(payload).value)) =>
            predictions = HandleReply(payload).ret

\* a fenced no-go document parsed to the value of the document, with its
\* should_execute of false
C14_Witness ==
    /\ pc = "returned"
    /\ response_text = Wrap("json", <<"DOC_NOGO">>)
    /\ predictions = HandleReply(<<"DOC_NOGO">>).ret
    /\ predictions = DocValue("DOC_NOGO")
    /\ predictions.v.overall_assessment.should_execute = FALSE

\* for a payload that holds no fence the wrapping is transparent, and the
\* result with and without it is the value of the payload
C14_TransparentWithoutInnerFence ==
    \A payload \in Payloads :
        (pc = "returned" /\ ~Contains(payload, Fence)) =>
            /\ response_text = Wrap("json", payload) =>
                   predictions = HandleReply(payload).ret
            /\ response_text \in {payload, Wrap("json", payload)} =>
                   predictions = JsonLoads(payload).value

\* C15: for every integer probability p of 0..100, _prob_color returns
\* without raising exactly one of three bands: the high-risk band iff
\* p >= 70, the medium-risk band iff 40 <= p <= 69, and the low-risk band
\* iff p < 40.
C15_BandsTotalAndExact ==
    pc = "displayed" =>
        /\ ~displayed.raised
        /\ DOMAIN displayed.categories = Categories
        /\ \A c \in Categories :
              LET line == displayed.categories[c]
                  p == predictions.v.predictions[c].probability
              IN  /\ line.probability = p
                  /\ line.prob_color \in {"FAIL", "WARNING", "OKGREEN"}
                  /\ line.prob_color = "FAIL" <=> p >= 70
                  /\ line.prob_color = "WARNING" <=> (40 <= p /\ p <= 69)
                  /\ line.prob_color = "OKGREEN" <=> p < 40

\* a probability on the threshold of the high-risk band, shown in that band
C15_Witness ==
    /\ pc = "displayed"
    /\ predictions.v.predictions.pod_scheduling.probability = 70
    /\ displayed.categories.pod_scheduling.prob_color = "FAIL"

\* the loop has ended on this step
LeavesLoop == pc # "exited" /\ pc' = "exited"

\* the Exit option was chosen at the menu (line 397)
ByExitOption ==
    /\ pc = "menu"
    /\ console' = Say("Thank you for using the EKS Job Predictor!")

\* a keyboard interrupt was handled (line 424)
ByKeyboardInterrupt ==
    /\ console' # <<>>
    /\ Last(console').msg = "Exiting..."

C16_Step ==
    /\ loaded' = loaded
    /\ LeavesLoop => (ByExitOption \/ ByKeyboardInterrupt)
    /\ pc = "exited" => pc' = "exited"

AwayFromMenu == pc \notin {"menu", "exited"}

\* C16: run_interactive_demo leaves the menu only through the Exit option
\* or a keyboard interrupt; after any other input and after any exception
\* raised while predicting, displaying or saving, control returns to the
\* menu (or the operator interrupts), and the loaded historical data, job
\* configurations and cluster configuration are never changed.
C16_MenuLoop ==
    /\ [][C16_Step]_vars
    /\ AwayFromMenu ~> ~AwayFromMenu

\* back at the menu after a result was displayed and its write failed
C16_Witness ==
    /\ pc = "menu"
    /\ displayed.header
    /\ saved = <<>>
    /\ console # <<>>
    /\ Last(console) = [msg |-> "Error", text |-> <<"OSError">>]

====
